---- MODULE Spec2Model ----
(***************************************************************************)
(* Model of the classification / aggregation core of the Aadhaar N.E.X.U.S *)
(* dashboard (uidai_dashboard/app.py).                                     *)
(*                                                                         *)
(* Scores are floats in the source.  A score is modelled as an integer     *)
(* number of hundredths (0.75 is 75), so every threshold of the source is  *)
(* an integer and "just below 0.75" is 74.  A value computed by the        *)
(* program (a mean) is a fraction [num, den] of hundredths; a fraction     *)
(* with den = 0 is NaN, which is what pandas' mean() gives for an empty    *)
(* column (0/0), and every ordered comparison with NaN is false.           *)
(***************************************************************************)
EXTENDS Integers, Sequences, FiniteSets, TLC

VARIABLES
    df,                 \* the frame returned by load_data(): a sequence of rows
    pc,                 \* position of the current run of main()
    selected_state,     \* the sidebar's state selectbox
    state_df,           \* rows of the selected state, with their risk_category
    risk_counts,        \* the sidebar's risk summary: category -> displayed count
    avg,                \* avg_dei, avg_ahs, avg_ubs, avg_srs of main()
    state_badge,        \* the badge of each KPI card (get_badge of the mean)
    suggestions,        \* the result of get_state_suggestions(state_df)
    selected_district,  \* the detail view's district selectbox
    district_data,      \* the row of the selected district
    recommendation,     \* get_recommendation(district_data)
    issue_type,         \* get_issue_type(district_data)
    district_badge,     \* the badge of each score card of the detail view
    quick_improvement,  \* SIMPLE_SUGGESTIONS[issue_type]
    pdf,                \* the content of generate_district_pdf
    report,             \* the content of generate_district_report
    state_map_df,       \* the per-state aggregation of the national section
    geojson_data,       \* the result of load_state_geojson()
    national,           \* what the national section shows
    master_csv,         \* the rows of district_equity_all_india.csv
    mp_csv,             \* the rows of madhya_pradesh_district_final_scores.csv
    mp_count,           \* the Madhya Pradesh count the merge script prints
    merge_runs,         \* how many times the merge script has run
    data_file,          \* the rows of data/district_equity_all_india.csv
    file_exists,        \* whether that file is there when load_data reads it
    load_error,         \* load_data has shown "Data file not found"
    response,           \* the answer to the one GeoJSON request (cache_resource)
    content,            \* the text of app.py as rename_ass_to_ahs.py sees it
    original_count,     \* the count of 'ASS' the rename script prints first
    new_count,          \* the count of 'ASS' the rename script prints last
    rename_runs         \* how many times the rename script has run

vars == << df, pc, selected_state, state_df, risk_counts, avg, state_badge,
           suggestions, selected_district, district_data, recommendation,
           issue_type, district_badge, quick_improvement, pdf, report,
           state_map_df, geojson_data, national,
           master_csv, mp_csv, mp_count, merge_runs,
           data_file, file_exists, load_error, response,
           content, original_count, new_count, rename_runs >>

\* the variables of the national section
natVars == << state_map_df, geojson_data, national, response >>

\* the file rename_ass_to_ahs.py rewrites and what it prints
renameVars == << content, original_count, new_count, rename_runs >>

\* the data file load_data reads and the error it shows
loadVars == << data_file, file_exists, load_error >>

\* the files of data/merge_mp_data.py, the count it prints and the number of
\* times it has run
scriptVars == << master_csv, mp_csv, mp_count, merge_runs >>

None == "none"

\* ------------------------------------------------------------------------
\* Bounds of the model
\* ------------------------------------------------------------------------

\* largest number of rows of a frame in SpecAgg
MaxGroup == 2

\* largest number of rows of a frame in SpecNat
MaxRows == 3

\* rows of the master file and of the Madhya Pradesh file, runs of the script
MaxMaster == 2

MaxMp == 2

MaxRuns == 3

\* pieces of the text of app.py, runs of the rename script
MaxPieces == 3

MaxRenames == 2

\* ------------------------------------------------------------------------
\* Floats
\* ------------------------------------------------------------------------

NaN == [num |-> 0, den |-> 0]

Fl(s) == [num |-> s, den |-> 1]

IsNaN(x) == x.den = 0

\* x >= t, x <= t, x < t, x > t for a float x and a threshold t (hundredths)
GE(x, t) == x.den > 0 /\ x.num >= t * x.den

LE(x, t) == x.den > 0 /\ x.num <= t * x.den

LT(x, t) == x.den > 0 /\ x.num < t * x.den

GT(x, t) == x.den > 0 /\ x.num > t * x.den

\* x - y
Minus(x, y) ==
    IF x.den = 0 \/ y.den = 0 THEN NaN
    ELSE [num |-> x.num * y.den - y.num * x.den, den |-> x.den * y.den]

\* ------------------------------------------------------------------------
\* Thresholds (hundredths)
\* ------------------------------------------------------------------------

BADGE_HIGH_EXCELLENT == 75

BADGE_HIGH_GOOD == 50

BADGE_HIGH_ATTENTION == 30

BADGE_LOW_EXCELLENT == 25

BADGE_LOW_GOOD == 50

BADGE_LOW_ATTENTION == 70

DEI_CRITICAL == 50

AHS_STRESS == 50

UBS_BURDEN == 70

SRS_RISK == 60

DEI_GOOD == 70

DEI_WARNING == 50

\* ------------------------------------------------------------------------
\* Constant tables
\* ------------------------------------------------------------------------

Metrics == << "DEI", "AHS", "UBS", "SRS" >>

MetricKeys == { "DEI", "AHS", "UBS", "SRS" }

METRIC_INFO ==
    [ DEI |-> [name |-> "Digital Equity Index", short |-> "DEI",
               higher_is_better |-> TRUE],
      AHS |-> [name |-> "Access Health Score", short |-> "Access",
               higher_is_better |-> TRUE],
      UBS |-> [name |-> "Update Load Score", short |-> "Update Load",
               higher_is_better |-> FALSE],
      SRS |-> [name |-> "Stability Score", short |-> "Stability",
               higher_is_better |-> FALSE] ]

\* a text is a sequence of pieces: words, a line break, a blank, or the two
\* characters backslash and n
LineBreak == "<newline>"

Blank == "<space>"

EscapedBreak == "<backslash-n>"

\* each text is represented by its first sentence, the line break after it and
\* its first numbered step
DETAILED_SUGGESTIONS ==
    [ access_stress  |-> << "The district shows signs of enrollment infrastructure strain.",
                            LineBreak, "1. Increase the number of active enrollment centers" >>,
      update_burden  |-> << "The district is experiencing high update request volumes.",
                            LineBreak, "1. Set up dedicated biometric update camps" >>,
      stability_risk |-> << "Service delivery in this district shows inconsistency.",
                            LineBreak, "1. Audit system uptime" >>,
      critical       |-> << "This district requires immediate, comprehensive intervention:",
                            LineBreak, "1. Conduct a full assessment" >>,
      healthy        |-> << "The district is performing well.",
                            LineBreak, "1. Continue regular monitoring" >> ]

SIMPLE_SUGGESTIONS ==
    [ access_stress  |-> "Add more enrollment centers and deploy mobile vans",
      update_burden  |-> "Set up dedicated update camps",
      stability_risk |-> "Audit system uptime and power/internet",
      critical       |-> "Allocate emergency resources now",
      healthy        |-> "Maintain current operations" ]

\* ------------------------------------------------------------------------
\* Classifier
\* ------------------------------------------------------------------------

\* get_badge with the top boundaries excluded (> 0.75, < 0.25)
get_badge_exclusive_top(score, metric_key) ==
    LET higher_is_better == METRIC_INFO[metric_key].higher_is_better IN
    IF higher_is_better
    THEN IF GT(score, BADGE_HIGH_EXCELLENT) THEN << "Excellent", "#22c55e", "green" >>
         ELSE IF GE(score, BADGE_HIGH_GOOD) THEN << "Good", "#84cc16", "yellow" >>
         ELSE IF GE(score, BADGE_HIGH_ATTENTION)
              THEN << "Needs Attention", "#f59e0b", "orange" >>
         ELSE << "Critical", "#ef4444", "red" >>
    ELSE IF LT(score, BADGE_LOW_EXCELLENT) THEN << "Excellent", "#22c55e", "green" >>
         ELSE IF LE(score, BADGE_LOW_GOOD) THEN << "Good", "#84cc16", "yellow" >>
         ELSE IF LE(score, BADGE_LOW_ATTENTION)
              THEN << "Needs Attention", "#f59e0b", "orange" >>
         ELSE << "Critical", "#ef4444", "red" >>

\* get_badge with the lower-is-better Needs Attention boundary excluded (< 0.7)
get_badge_exclusive_attention(score, metric_key) ==
    LET higher_is_better == METRIC_INFO[metric_key].higher_is_better IN
    IF higher_is_better
    THEN IF GE(score, BADGE_HIGH_EXCELLENT) THEN << "Excellent", "#22c55e", "green" >>
         ELSE IF GE(score, BADGE_HIGH_GOOD) THEN << "Good", "#84cc16", "yellow" >>
         ELSE IF GE(score, BADGE_HIGH_ATTENTION)
              THEN << "Needs Attention", "#f59e0b", "orange" >>
         ELSE << "Critical", "#ef4444", "red" >>
    ELSE IF LE(score, BADGE_LOW_EXCELLENT) THEN << "Excellent", "#22c55e", "green" >>
         ELSE IF LE(score, BADGE_LOW_GOOD) THEN << "Good", "#84cc16", "yellow" >>
         ELSE IF LT(score, BADGE_LOW_ATTENTION)
              THEN << "Needs Attention", "#f59e0b", "orange" >>
         ELSE << "Critical", "#ef4444", "red" >>

\* get_badge with a range check in front of the bands
get_badge_range_checked(score, metric_key) ==
    LET higher_is_better == METRIC_INFO[metric_key].higher_is_better IN
    IF LT(score, 0) \/ GT(score, 100) THEN << "Invalid", "#000000", "black" >>
    ELSE IF higher_is_better
    THEN IF GE(score, BADGE_HIGH_EXCELLENT) THEN << "Excellent", "#22c55e", "green" >>
         ELSE IF GE(score, BADGE_HIGH_GOOD) THEN << "Good", "#84cc16", "yellow" >>
         ELSE IF GE(score, BADGE_HIGH_ATTENTION)
              THEN << "Needs Attention", "#f59e0b", "orange" >>
         ELSE << "Critical", "#ef4444", "red" >>
    ELSE IF LE(score, BADGE_LOW_EXCELLENT) THEN << "Excellent", "#22c55e", "green" >>
         ELSE IF LE(score, BADGE_LOW_GOOD) THEN << "Good", "#84cc16", "yellow" >>
         ELSE IF LE(score, BADGE_LOW_ATTENTION)
              THEN << "Needs Attention", "#f59e0b", "orange" >>
         ELSE << "Critical", "#ef4444", "red" >>

\* get_badge that applies the higher-is-better bands to every metric
get_badge_ignores_direction(score, metric_key) ==
    IF GE(score, BADGE_HIGH_EXCELLENT) THEN << "Excellent", "#22c55e", "green" >>
    ELSE IF GE(score, BADGE_HIGH_GOOD) THEN << "Good", "#84cc16", "yellow" >>
    ELSE IF GE(score, BADGE_HIGH_ATTENTION)
         THEN << "Needs Attention", "#f59e0b", "orange" >>
    ELSE << "Critical", "#ef4444", "red" >>

get_badge(score, metric_key) ==
    LET higher_is_better == METRIC_INFO[metric_key].higher_is_better IN
    IF higher_is_better
    THEN IF GE(score, BADGE_HIGH_EXCELLENT) THEN << "Excellent", "#22c55e", "green" >>
         ELSE IF GE(score, BADGE_HIGH_GOOD) THEN << "Good", "#84cc16", "yellow" >>
         ELSE IF GE(score, BADGE_HIGH_ATTENTION)
              THEN << "Needs Attention", "#f59e0b", "orange" >>
         ELSE << "Critical", "#ef4444", "red" >>
    ELSE IF LE(score, BADGE_LOW_EXCELLENT) THEN << "Excellent", "#22c55e", "green" >>
         ELSE IF LE(score, BADGE_LOW_GOOD) THEN << "Good", "#84cc16", "yellow" >>
         ELSE IF LE(score, BADGE_LOW_ATTENTION)
              THEN << "Needs Attention", "#f59e0b", "orange" >>
         ELSE << "Critical", "#ef4444", "red" >>

\* get_issue_type with the DEI rule tried last instead of first
get_issue_type_dei_last(row) ==
    IF LT(Fl(row.AHS), AHS_STRESS) THEN "access_stress"
    ELSE IF GT(Fl(row.UBS), UBS_BURDEN) THEN "update_burden"
    ELSE IF GT(Fl(row.SRS), SRS_RISK) THEN "stability_risk"
    ELSE IF LT(Fl(row.DEI), DEI_CRITICAL) THEN "critical"
    ELSE "healthy"

\* get_issue_type with the stability rule at the badge boundary 0.7
get_issue_type_srs_drift(row) ==
    IF LT(Fl(row.DEI), DEI_CRITICAL) THEN "critical"
    ELSE IF LT(Fl(row.AHS), AHS_STRESS) THEN "access_stress"
    ELSE IF GT(Fl(row.UBS), UBS_BURDEN) THEN "update_burden"
    ELSE IF GT(Fl(row.SRS), BADGE_LOW_ATTENTION) THEN "stability_risk"
    ELSE "healthy"

\* get_issue_type with a tag for the stability rule that is no key of the corpus
get_issue_type_typo(row) ==
    IF LT(Fl(row.DEI), DEI_CRITICAL) THEN "critical"
    ELSE IF LT(Fl(row.AHS), AHS_STRESS) THEN "access_stress"
    ELSE IF GT(Fl(row.UBS), UBS_BURDEN) THEN "update_burden"
    ELSE IF GT(Fl(row.SRS), SRS_RISK) THEN "stability"
    ELSE "healthy"

get_issue_type(row) ==
    IF LT(Fl(row.DEI), DEI_CRITICAL) THEN "critical"
    ELSE IF LT(Fl(row.AHS), AHS_STRESS) THEN "access_stress"
    ELSE IF GT(Fl(row.UBS), UBS_BURDEN) THEN "update_burden"
    ELSE IF GT(Fl(row.SRS), SRS_RISK) THEN "stability_risk"
    ELSE "healthy"

\* get_dei_category with the boundaries excluded (> 0.7, > 0.5)
get_dei_category_exclusive(dei_score) ==
    IF GT(dei_score, DEI_GOOD) THEN "Good"
    ELSE IF GT(dei_score, DEI_WARNING) THEN "Warning"
    ELSE "Critical"

get_dei_category(dei_score) ==
    IF GE(dei_score, DEI_GOOD) THEN "Good"
    ELSE IF GE(dei_score, DEI_WARNING) THEN "Warning"
    ELSE "Critical"

\* get_risk_category with the update rule tried before the access rule
get_risk_category_update_first(row) ==
    IF GT(Fl(row.UBS), UBS_BURDEN) THEN "Update Burden"
    ELSE IF LT(Fl(row.AHS), AHS_STRESS) THEN "Access Stress"
    ELSE IF GT(Fl(row.SRS), SRS_RISK) THEN "Stability Risk"
    ELSE "Healthy"

\* get_risk_category unified with get_issue_type: the DEI rule first
get_risk_category_dei_first(row) ==
    IF LT(Fl(row.DEI), DEI_CRITICAL) THEN "Critical"
    ELSE IF LT(Fl(row.AHS), AHS_STRESS) THEN "Access Stress"
    ELSE IF GT(Fl(row.UBS), UBS_BURDEN) THEN "Update Burden"
    ELSE IF GT(Fl(row.SRS), SRS_RISK) THEN "Stability Risk"
    ELSE "Healthy"

get_risk_category(row) ==
    IF LT(Fl(row.AHS), AHS_STRESS) THEN "Access Stress"
    ELSE IF GT(Fl(row.UBS), UBS_BURDEN) THEN "Update Burden"
    ELSE IF GT(Fl(row.SRS), SRS_RISK) THEN "Stability Risk"
    ELSE "Healthy"

\* get_recommendation with the access rule tried before the DEI rule
get_recommendation_access_first(row) ==
    IF LT(Fl(row.AHS), AHS_STRESS)
    THEN [level |-> "warning", title |-> "High Access Stress",
          message |-> "District faces challenges in Aadhaar enrollment accessibility.",
          action |-> "Focus on enrollment infrastructure - add more centers, improve connectivity."]
    ELSE IF LT(Fl(row.DEI), DEI_CRITICAL)
    THEN [level |-> "critical", title |-> "Critical Equity Gap",
          message |-> "This district requires immediate attention. DEI score is critically low.",
          action |-> "Prioritize comprehensive resource allocation and infrastructure development."]
    ELSE IF GT(Fl(row.UBS), UBS_BURDEN)
    THEN [level |-> "warning", title |-> "Update Overload",
          message |-> "High volume of update requests straining system capacity.",
          action |-> "Streamline update processes - consider mobile camps, optimize workflows."]
    ELSE IF GT(Fl(row.SRS), SRS_RISK)
    THEN [level |-> "warning", title |-> "Stability Concerns",
          message |-> "Inconsistent service delivery detected.",
          action |-> "Review system uptime, data quality, and operational consistency."]
    ELSE [level |-> "good", title |-> "District Performing Well",
          message |-> "All metrics are within acceptable ranges.",
          action |-> "Maintain current operations and continue monitoring."]

get_recommendation(row) ==
    IF LT(Fl(row.DEI), DEI_CRITICAL)
    THEN [level |-> "critical", title |-> "Critical Equity Gap",
          message |-> "This district requires immediate attention. DEI score is critically low.",
          action |-> "Prioritize comprehensive resource allocation and infrastructure development."]
    ELSE IF LT(Fl(row.AHS), AHS_STRESS)
    THEN [level |-> "warning", title |-> "High Access Stress",
          message |-> "District faces challenges in Aadhaar enrollment accessibility.",
          action |-> "Focus on enrollment infrastructure - add more centers, improve connectivity."]
    ELSE IF GT(Fl(row.UBS), UBS_BURDEN)
    THEN [level |-> "warning", title |-> "Update Overload",
          message |-> "High volume of update requests straining system capacity.",
          action |-> "Streamline update processes - consider mobile camps, optimize workflows."]
    ELSE IF GT(Fl(row.SRS), SRS_RISK)
    THEN [level |-> "warning", title |-> "Stability Concerns",
          message |-> "Inconsistent service delivery detected.",
          action |-> "Review system uptime, data quality, and operational consistency."]
    ELSE [level |-> "good", title |-> "District Performing Well",
          message |-> "All metrics are within acceptable ranges.",
          action |-> "Maintain current operations and continue monitoring."]

\* ------------------------------------------------------------------------
\* pandas helpers
\* ------------------------------------------------------------------------

\* str.title() on the district names of the model: the first letter of each
\* word upper-cased, the others lower-cased
Title(name) ==
    CASE name \in {"pune", "PUNE", "Pune"} -> "Pune"
      [] name \in {"agra", "AGRA", "Agra"} -> "Agra"
      [] name \in {"kota", "KOTA", "Kota"} -> "Kota"
      [] name \in {"gaya", "GAYA", "Gaya"} -> "Gaya"
      [] name \in {"new delhi", "New Delhi"} -> "New Delhi"
      [] OTHER -> name

RECURSIVE ColumnSum(_, _)
ColumnSum(frame, key) ==
    IF frame = << >> THEN 0
    ELSE frame[1][key] + ColumnSum(Tail(frame), key)

\* the column's sum in place of its mean
Mean_sum(frame, key) == [num |-> ColumnSum(frame, key), den |-> 1]

\* frame[key].mean(): the sum over the count; 0/0 = NaN for an empty column
Mean(frame, key) == [num |-> ColumnSum(frame, key), den |-> Len(frame)]

\* numpy argmax: a left-to-right scan that keeps the first largest value
RECURSIVE ArgMaxScan(_, _, _, _)
ArgMaxScan(frame, key, i, best) ==
    IF i > Len(frame) THEN best
    ELSE IF frame[i][key] > frame[best][key] THEN ArgMaxScan(frame, key, i + 1, i)
    ELSE ArgMaxScan(frame, key, i + 1, best)

RECURSIVE ArgMinScan(_, _, _, _)
ArgMinScan(frame, key, i, best) ==
    IF i > Len(frame) THEN best
    ELSE IF frame[i][key] < frame[best][key] THEN ArgMinScan(frame, key, i + 1, i)
    ELSE ArgMinScan(frame, key, i + 1, best)

\* an argmax that keeps the last largest value
RECURSIVE ArgMaxLastScan(_, _, _, _)
ArgMaxLastScan(frame, key, i, best) ==
    IF i > Len(frame) THEN best
    ELSE IF frame[i][key] >= frame[best][key] THEN ArgMaxLastScan(frame, key, i + 1, i)
    ELSE ArgMaxLastScan(frame, key, i + 1, best)

idxmax_last(frame, key) == IF frame = << >> THEN 0 ELSE ArgMaxLastScan(frame, key, 2, 1)

\* frame[key].idxmax() / idxmin(); 0 stands for the ValueError on an empty column
idxmax(frame, key) == IF frame = << >> THEN 0 ELSE ArgMaxScan(frame, key, 2, 1)

idxmin(frame, key) == IF frame = << >> THEN 0 ELSE ArgMinScan(frame, key, 2, 1)

\* ------------------------------------------------------------------------
\* Aggregator
\* ------------------------------------------------------------------------

LowDei(r) == LT(Fl(r.DEI), DEI_CRITICAL)

\* AccessStress with the boundary included (AHS <= 0.5)
AccessStress_inclusive(r) == LE(Fl(r.AHS), AHS_STRESS)

AccessStress(r) == LT(Fl(r.AHS), AHS_STRESS)

\* the update-burden flag taken from the first-match risk category
UpdateBurden_first_match(r) == get_risk_category(r) = "Update Burden"

UpdateBurden(r) == GT(Fl(r.UBS), UBS_BURDEN)

StabilityRisk(r) == GT(Fl(r.SRS), SRS_RISK)

\* CountLine without the test n > 0
CountLine_always(kind, n) == << [kind |-> kind, count |-> n] >>

CountLine(kind, n) == IF n > 0 THEN << [kind |-> kind, count |-> n] >> ELSE << >>

\* OverallLine with the boundaries excluded (> 0.7, > 0.5)
OverallLine_exclusive(avg_dei) ==
    IF GT(avg_dei, DEI_GOOD) THEN [kind |-> "overall", text |-> "excellent"]
    ELSE IF GT(avg_dei, DEI_WARNING) THEN [kind |-> "overall", text |-> "moderate"]
    ELSE [kind |-> "overall", text |-> "below par"]

OverallLine(avg_dei) ==
    IF GE(avg_dei, DEI_GOOD) THEN [kind |-> "overall", text |-> "excellent"]
    ELSE IF GE(avg_dei, DEI_WARNING) THEN [kind |-> "overall", text |-> "moderate"]
    ELSE [kind |-> "overall", text |-> "below par"]

\* the result is [raised |-> TRUE] when the call ends in an exception
get_state_suggestions(frame) ==
    LET avg_dei        == Mean(frame, "DEI")
        low_dei        == Len(SelectSeq(frame, LowDei))
        access_stress  == Len(SelectSeq(frame, AccessStress))
        update_burden  == Len(SelectSeq(frame, UpdateBurden))
        stability_risk == Len(SelectSeq(frame, StabilityRisk))
        counted        == CountLine("low_dei", low_dei)
                          \o CountLine("access_stress", access_stress)
                          \o CountLine("update_burden", update_burden)
                          \o CountLine("stability_risk", stability_risk)
                          \o << OverallLine(avg_dei) >>
    IN  IF idxmax(frame, "DEI") = 0
        THEN [raised |-> TRUE, lines |-> << >>]
        ELSE LET best  == frame[idxmax(frame, "DEI")]
                 worst == frame[idxmin(frame, "DEI")]
             IN [raised |-> FALSE,
                 lines  |-> counted
                     \o << [kind |-> "best", district |-> Title(best.district),
                            DEI |-> best.DEI],
                           [kind |-> "worst", district |-> Title(worst.district),
                            DEI |-> worst.DEI] >>]

\* ------------------------------------------------------------------------
\* Reports
\* ------------------------------------------------------------------------

\* f"{x:.3f}": the value rounded to thousandths (half to even), "nan" for NaN
Fmt3(x) ==
    IF x.den = 0 THEN "nan"
    ELSE LET n == 10 * x.num
             q == n \div x.den
             r == n % x.den
         IN IF 2 * r > x.den \/ (2 * r = x.den /\ q % 2 = 1) THEN q + 1 ELSE q

\* dict.get(key, default)
DictGet(dict, key, default) == IF key \in DOMAIN dict THEN dict[key] ELSE default

\* str.replace('\\n', '\n'): the two characters backslash, n become a line break
ReplaceEscapedBreaks(text) ==
    [i \in 1..Len(text) |-> IF text[i] = EscapedBreak THEN LineBreak ELSE text[i]]

\* str.strip(): white space at both ends is dropped
RECURSIVE strip(_)
strip(text) ==
    IF text = << >> THEN << >>
    ELSE IF Head(text) \in {LineBreak, Blank} THEN strip(Tail(text))
    ELSE IF text[Len(text)] \in {LineBreak, Blank}
         THEN strip(SubSeq(text, 1, Len(text) - 1))
    ELSE text

\* the detailed suggestion as the PDF prints it
clean_suggestion(detailed_suggestion) == strip(ReplaceEscapedBreaks(detailed_suggestion))

\* ReportRow with the difference taken as mean minus score
ReportRow_reversed_diff(name, key, data, state_data) ==
    [metric |-> name,
     score  |-> Fmt3(Fl(data[key])),
     avg    |-> Fmt3(Mean(state_data, key)),
     diff   |-> Fmt3(Minus(Mean(state_data, key), Fl(data[key]))),
     status |-> get_badge(Fl(data[key]), key)[1]]

\* one line of the score table of the text report
ReportRow(name, key, data, state_data) ==
    [metric |-> name,
     score  |-> Fmt3(Fl(data[key])),
     avg    |-> Fmt3(Mean(state_data, key)),
     diff   |-> Fmt3(Minus(Fl(data[key]), Mean(state_data, key))),
     status |-> get_badge(Fl(data[key]), key)[1]]

\* the report date (the clock) is left out
generate_district_report(state, district, data, state_data) ==
    LET it                  == get_issue_type(data)
        detailed_suggestion == DictGet(DETAILED_SUGGESTIONS, it,
                                       DETAILED_SUGGESTIONS["healthy"])
        rec                 == get_recommendation(data)
    IN [state    |-> state,
        district |-> Title(district),
        rows     |-> << ReportRow("Digital Equity Index", "DEI", data, state_data),
                        ReportRow("Access Health Score", "AHS", data, state_data),
                        ReportRow("Update Load Score", "UBS", data, state_data),
                        ReportRow("Stability Score", "SRS", data, state_data) >>,
        status   |-> rec.title,
        summary  |-> rec.message,
        detailed |-> detailed_suggestion]

PdfMetrics ==
    << << "Digital Equity Index", "DEI" >>, << "Access Health Score", "AHS" >>,
       << "Update Load Score", "UBS" >>, << "Stability Score", "SRS" >> >>

\* one pass of the loop over metrics of the PDF report
\* PdfRow with the status taken from the state average
PdfRow_badge_of_mean(label, key, data, state_data) ==
    LET score  == Fl(data[key])
        avgv   == Mean(state_data, key)
        diff   == Minus(score, avgv)
        status == get_badge(avgv, key)[1]
    IN [metric |-> label, score |-> Fmt3(score), avg |-> Fmt3(avgv),
        diff |-> Fmt3(diff), status |-> status]

PdfRow(label, key, data, state_data) ==
    LET score  == Fl(data[key])
        avgv   == Mean(state_data, key)
        diff   == Minus(score, avgv)
        status == get_badge(score, key)[1]
    IN [metric |-> label, score |-> Fmt3(score), avg |-> Fmt3(avgv),
        diff |-> Fmt3(diff), status |-> status]

generate_district_pdf(state, district, data, state_data) ==
    LET it                  == get_issue_type(data)
        detailed_suggestion == DictGet(DETAILED_SUGGESTIONS, it,
                                       DETAILED_SUGGESTIONS["healthy"])
        rec                 == get_recommendation(data)
    IN [state    |-> state,
        district |-> Title(district),
        rows     |-> [i \in 1..Len(PdfMetrics) |->
                         PdfRow(PdfMetrics[i][1], PdfMetrics[i][2], data, state_data)],
        status   |-> rec.title,
        summary  |-> rec.message,
        detailed |-> clean_suggestion(detailed_suggestion)]

\* ------------------------------------------------------------------------
\* main(): one run of the dashboard script
\* ------------------------------------------------------------------------

RiskCategories == << "Healthy", "Access Stress", "Update Burden", "Stability Risk" >>

\* state_df.apply(get_risk_category, axis=1) stored as the column risk_category
WithRisk(r) ==
    [state |-> r.state, district |-> r.district, DEI |-> r.DEI, AHS |-> r.AHS,
     UBS |-> r.UBS, SRS |-> r.SRS, risk_category |-> get_risk_category(r)]

\* df[df['state'] == s].copy() with its risk_category column
StateFrame(frame, s) ==
    LET InState(r) == r.state = s
        rows       == SelectSeq(frame, InState)
    IN [i \in 1..Len(rows) |-> WithRisk(rows[i])]

\* a risk summary that counts a row under every category whose rule it fails
RiskCounts_flags(frame) ==
    [c \in {RiskCategories[i] : i \in 1..Len(RiskCategories)} |->
        Cardinality({i \in 1..Len(frame) :
            CASE c = "Access Stress"  -> AccessStress(frame[i])
              [] c = "Update Burden"  -> UpdateBurden(frame[i])
              [] c = "Stability Risk" -> StabilityRisk(frame[i])
              [] OTHER                -> frame[i].risk_category = c })]

\* value_counts() read with .get(category, 0)
RiskCounts(frame) ==
    [c \in {RiskCategories[i] : i \in 1..Len(RiskCategories)} |->
        Cardinality({i \in 1..Len(frame) : frame[i].risk_category = c})]

\* a state selectbox that offers a fixed list of states, in the data or not
StateOptions_fixed_list(frame) == {"Goa", "Jammu and Kashmir", "X"}

\* the options of the state selectbox; an empty selectbox returns None
StateOptions(frame) ==
    LET states == {frame[i].state : i \in 1..Len(frame)}
    IN IF states = {} THEN {None} ELSE states

\* the first row whose title-cased district is d (.iloc[0])
DistrictRow(frame, d) ==
    frame[CHOOSE i \in 1..Len(frame) :
            /\ Title(frame[i].district) = d
            /\ \A j \in 1..(i - 1) : Title(frame[j].district) # d]

\* the state names of the model in the order sorted() and groupby give them
StateNames == << "Goa", "Jammu and Kashmir", "Madhya Pradesh", "X" >>

\* the states that occur in the frame, sorted
SortedStates(frame) ==
    LET Occurs(n) == \E i \in 1..Len(frame) : frame[i].state = n
    IN SelectSeq(StateNames, Occurs)

\* state_map_df['state'].replace(state_name_mapping)
ReplaceStateName(n) == IF n = "Jammu and Kashmir" THEN "Jammu & Kashmir" ELSE n

\* one row of df.groupby('state').agg(...) with its dei_category
StateMapRow(frame, n) ==
    LET InState(r) == r.state = n
        rows       == SelectSeq(frame, InState)
    IN [state        |-> ReplaceStateName(n),
        DEI          |-> Mean(rows, "DEI"),
        AHS          |-> Mean(rows, "AHS"),
        UBS          |-> Mean(rows, "UBS"),
        SRS          |-> Mean(rows, "SRS"),
        district     |-> Len(rows),
        dei_category |-> get_dei_category(Mean(rows, "DEI"))]

StateMap(frame) ==
    LET states == SortedStates(frame)
    IN [i \in 1..Len(states) |-> StateMapRow(frame, states[i])]

\* len(state_map_df[state_map_df['dei_category'] == c])
CategoryCount(map, c) ==
    LET Is(r) == r.dei_category = c
    IN Len(SelectSeq(map, Is))

\* a < b for two floats that are not NaN
Less(a, b) == a.num * b.den < b.num * a.den

\* sort_values('DEI'): insertion of a row behind the rows that are not larger
RECURSIVE InsertByDei(_, _)
InsertByDei(sorted, r) ==
    IF sorted = << >> THEN << r >>
    ELSE IF Less(r.DEI, sorted[1].DEI) THEN << r >> \o sorted
    ELSE << sorted[1] >> \o InsertByDei(Tail(sorted), r)

RECURSIVE SortByDei(_)
SortByDei(map) ==
    IF map = << >> THEN << >>
    ELSE InsertByDei(SortByDei(SubSeq(map, 1, Len(map) - 1)), map[Len(map)])

\* nsmallest(5, 'DEI')
BottomStates(map) ==
    LET sorted == SortByDei(map)
    IN SubSeq(sorted, 1, IF Len(sorted) < 5 THEN Len(sorted) ELSE 5)

\* the column of statistics beside the map
NationalOverview(frame, map) ==
    [kind            |-> "overview",
     national_avg    |-> Fmt3(Mean(frame, "DEI")),
     total_states    |-> Len(map),
     total_districts |-> Len(frame),
     s_good          |-> CategoryCount(map, "Good"),
     s_warn          |-> CategoryCount(map, "Warning"),
     s_crit          |-> CategoryCount(map, "Critical"),
     bottom_states   |-> [i \in 1..Len(BottomStates(map)) |->
                            [state |-> BottomStates(map)[i].state,
                             DEI   |-> Fmt3(BottomStates(map)[i].DEI)]]]

\* the listing shown when the map is unavailable
FallbackListing(map) ==
    [kind |-> "listing",
     rows |-> [i \in 1..Len(map) |->
                 [state        |-> SortByDei(map)[i].state,
                  DEI          |-> SortByDei(map)[i].DEI,
                  dei_category |-> SortByDei(map)[i].dei_category]]]

\* what requests.get can end in: status 200 with the GeoJSON, another status,
\* or an exception (no network, timeout)
Responses == {"200", "503", "exception"}

\* load_state_geojson that does not look at the status code
load_state_geojson_any_status(answer) ==
    IF answer = "exception" THEN None ELSE "geojson"

\* the GeoJSON for status 200, None for any other status and for an exception
load_state_geojson(answer) ==
    IF answer = "200" THEN "geojson" ELSE None

\* load_data that shows the error and goes on without st.stop()
Load_without_stop ==
    /\ pc = "load"
    /\ df' = IF file_exists THEN data_file ELSE df
    /\ load_error' = ~file_exists
    /\ pc' = "national"
    /\ UNCHANGED << data_file, file_exists >>
    /\ UNCHANGED << selected_state, state_df, risk_counts, avg, state_badge,
                    suggestions, selected_district, district_data, recommendation,
                    issue_type, district_badge, quick_improvement, pdf, report >>
    /\ UNCHANGED natVars
    /\ UNCHANGED scriptVars
    /\ UNCHANGED renameVars

\* load_data() at the top of main(): the frame read from the data file, or
\* st.error and st.stop() when the file is not there
Load ==
    /\ pc = "load"
    /\ IF file_exists
       THEN /\ df' = data_file
            /\ load_error' = FALSE
            /\ pc' = "national"
       ELSE /\ df' = df
            /\ load_error' = TRUE
            /\ pc' = "stopped"
    /\ UNCHANGED << data_file, file_exists >>
    /\ UNCHANGED << selected_state, state_df, risk_counts, avg, state_badge,
                    suggestions, selected_district, district_data, recommendation,
                    issue_type, district_badge, quick_improvement, pdf, report >>
    /\ UNCHANGED natVars
    /\ UNCHANGED scriptVars
    /\ UNCHANGED renameVars

\* the header and the national section: the per-state aggregation, then the
\* map with its statistics, or the listing when load_state_geojson() returned None
National ==
    /\ pc = "national"
    /\ state_map_df' = StateMap(df)
    /\ \E answer \in (IF response = "unset" THEN Responses ELSE {response}) :
          /\ response' = answer
          /\ geojson_data' = load_state_geojson(answer)
    /\ national' = IF geojson_data' # None
                   THEN NationalOverview(df, state_map_df')
                   ELSE FallbackListing(state_map_df')
    /\ pc' = "sidebar"
    /\ UNCHANGED << df, selected_state, state_df, risk_counts, avg, state_badge,
                    suggestions, selected_district, district_data, recommendation,
                    issue_type, district_badge, quick_improvement, pdf, report >>
    /\ UNCHANGED scriptVars
    /\ UNCHANGED renameVars
    /\ UNCHANGED loadVars

\* Sidebar that adds the risk_category column to the loaded frame itself
Sidebar_in_place ==
    /\ pc = "sidebar"
    /\ df' = [i \in 1..Len(df) |-> WithRisk(df[i])]
    /\ \E s \in StateOptions(df) :
          /\ selected_state' = s
          /\ state_df' = StateFrame(df, s)
    /\ risk_counts' = RiskCounts(state_df')
    /\ pc' = "summary"
    /\ UNCHANGED << avg, state_badge, suggestions, selected_district,
                    district_data, recommendation, issue_type, district_badge,
                    quick_improvement, pdf, report >>
    /\ UNCHANGED natVars
    /\ UNCHANGED scriptVars
    /\ UNCHANGED renameVars
    /\ UNCHANGED loadVars

Sidebar ==
    /\ pc = "sidebar"
    /\ \E s \in StateOptions(df) :
          /\ selected_state' = s
          /\ state_df' = StateFrame(df, s)
    /\ risk_counts' = RiskCounts(state_df')
    /\ pc' = "summary"
    /\ UNCHANGED << df, avg, state_badge, suggestions, selected_district,
                    district_data, recommendation, issue_type, district_badge,
                    quick_improvement, pdf, report >>
    /\ UNCHANGED natVars
    /\ UNCHANGED scriptVars
    /\ UNCHANGED renameVars
    /\ UNCHANGED loadVars

StateSummary ==
    /\ pc = "summary"
    /\ avg' = [m \in MetricKeys |-> Mean(state_df, m)]
    /\ state_badge' = [m \in MetricKeys |-> get_badge(avg'[m], m)]
    /\ pc' = "insights"
    /\ UNCHANGED << df, selected_state, state_df, risk_counts, suggestions,
                    selected_district, district_data, recommendation, issue_type,
                    district_badge, quick_improvement, pdf, report >>
    /\ UNCHANGED natVars
    /\ UNCHANGED scriptVars
    /\ UNCHANGED renameVars
    /\ UNCHANGED loadVars

StateInsights ==
    /\ pc = "insights"
    /\ suggestions' = get_state_suggestions(state_df)
    /\ pc' = IF suggestions'.raised THEN "error" ELSE "detail"
    /\ UNCHANGED << df, selected_state, state_df, risk_counts, avg, state_badge,
                    selected_district, district_data, recommendation, issue_type,
                    district_badge, quick_improvement, pdf, report >>
    /\ UNCHANGED natVars
    /\ UNCHANGED scriptVars
    /\ UNCHANGED renameVars
    /\ UNCHANGED loadVars

DistrictDetail ==
    /\ pc = "detail"
    /\ \E d \in {Title(state_df[i].district) : i \in 1..Len(state_df)} :
          /\ selected_district' = d
          /\ district_data' = DistrictRow(state_df, d)
    /\ recommendation' = get_recommendation(district_data')
    /\ issue_type' = get_issue_type(district_data')
    /\ district_badge' = [m \in MetricKeys |-> get_badge(Fl(district_data'[m]), m)]
    \* SIMPLE_SUGGESTIONS[issue_type] raises KeyError for a missing key, and
    \* the run ends before the PDF export
    /\ quick_improvement' = DictGet(SIMPLE_SUGGESTIONS, issue_type', "KeyError")
    /\ pdf' = IF issue_type' \in DOMAIN SIMPLE_SUGGESTIONS
              THEN generate_district_pdf(selected_state, selected_district',
                                         district_data', state_df)
              ELSE pdf
    /\ pc' = IF issue_type' \in DOMAIN SIMPLE_SUGGESTIONS THEN "done" ELSE "error"
    /\ UNCHANGED << df, selected_state, state_df, risk_counts, avg, state_badge,
                    suggestions, report >>
    /\ UNCHANGED natVars
    /\ UNCHANGED scriptVars
    /\ UNCHANGED renameVars
    /\ UNCHANGED loadVars

\* generate_district_report has no caller in app.py; it is applied to the
\* arguments the PDF export is given
GenerateDistrictReport ==
    /\ pc = "done"
    /\ report' = generate_district_report(selected_state, selected_district,
                                          district_data, state_df)
    /\ pc' = "reported"
    /\ UNCHANGED << df, selected_state, state_df, risk_counts, avg,
                    state_badge, suggestions, selected_district, district_data,
                    recommendation, issue_type, district_badge,
                    quick_improvement, pdf >>
    /\ UNCHANGED natVars
    /\ UNCHANGED scriptVars
    /\ UNCHANGED renameVars
    /\ UNCHANGED loadVars

\* a widget change, an uncaught exception or st.stop() ends the run; Streamlit
\* runs the script again from the top, with the cached frame if load_data has
\* returned one
Rerun ==
    /\ pc \in {"done", "reported", "error", "stopped"}
    /\ pc' = IF pc = "stopped" THEN "load" ELSE "national"
    /\ load_error' = FALSE
    /\ state_map_df' = << >>
    /\ geojson_data' = None
    /\ national' = None
    /\ selected_state' = None
    /\ state_df' = << >>
    /\ risk_counts' = None
    /\ avg' = None
    /\ state_badge' = None
    /\ suggestions' = None
    /\ selected_district' = None
    /\ district_data' = None
    /\ recommendation' = None
    /\ issue_type' = None
    /\ district_badge' = None
    /\ quick_improvement' = None
    /\ pdf' = None
    /\ report' = None
    /\ UNCHANGED response
    /\ UNCHANGED df
    /\ UNCHANGED << data_file, file_exists >>
    /\ UNCHANGED scriptVars
    /\ UNCHANGED renameVars

Next ==
    \/ Load
    \/ National
    \/ Sidebar
    \/ StateSummary
    \/ StateInsights
    \/ DistrictDetail
    \/ GenerateDistrictReport
    \/ Rerun

\* ------------------------------------------------------------------------
\* data/merge_mp_data.py: one run of the merge script
\* ------------------------------------------------------------------------

\* the state names and the district names of the files, in the order Python
\* compares strings (upper case before lower case)
FileStates == << "Goa", "MADHYA PRADESH", "Madhya Pradesh" >>

FileDistricts == << "Bhopal", "Indore" >>

\* the place of a name in a sorted list of names
Pos(names, x) == CHOOSE i \in 1..Len(names) : names[i] = x

\* KeyLess that looks at the state only
KeyLess_state_only(a, b) ==
    Pos(FileStates, a.state) < Pos(FileStates, b.state)

\* a row sorts before another by state, then by district
KeyLess(a, b) ==
    \/ Pos(FileStates, a.state) < Pos(FileStates, b.state)
    \/ /\ a.state = b.state
       /\ Pos(FileDistricts, a.district) < Pos(FileDistricts, b.district)

\* sort_values(['state', 'district']): a stable sort, a row goes behind the
\* rows already placed that do not sort after it
RECURSIVE InsertByKey(_, _)
InsertByKey(sorted, r) ==
    IF sorted = << >> THEN << r >>
    ELSE IF KeyLess(r, sorted[1]) THEN << r >> \o sorted
    ELSE << sorted[1] >> \o InsertByKey(Tail(sorted), r)

RECURSIVE SortByKey(_)
SortByKey(frame) ==
    IF frame = << >> THEN << >>
    ELSE InsertByKey(SortByKey(SubSeq(frame, 1, Len(frame) - 1)), frame[Len(frame)])

IsMadhyaPradesh(r) == r.state = "Madhya Pradesh"

NotMadhyaPradesh(r) == r.state # "Madhya Pradesh"

\* merged_df with the filter of the master file turned round (== for !=)
merged_df_keeps_old(master, mp) ==
    LET master_df == SelectSeq(master, IsMadhyaPradesh)
    IN SortByKey(master_df \o mp)

\* the master file the script writes, given the two files it reads
merged_df(master, mp) ==
    LET master_df == SelectSeq(master, NotMadhyaPradesh)
    IN SortByKey(master_df \o mp)

\* the script has no loop and no state of its own: a run reads both files,
\* rewrites the master file and prints the number of Madhya Pradesh rows
RunMerge ==
    /\ merge_runs < MaxRuns
    /\ master_csv' = merged_df(master_csv, mp_csv)
    /\ mp_count' = Len(SelectSeq(master_csv', IsMadhyaPradesh))
    /\ merge_runs' = merge_runs + 1
    /\ UNCHANGED mp_csv
    /\ UNCHANGED << df, pc, selected_state, state_df, risk_counts, avg,
                    state_badge, suggestions, selected_district, district_data,
                    recommendation, issue_type, district_badge,
                    quick_improvement, pdf, report >>
    /\ UNCHANGED natVars
    /\ UNCHANGED loadVars
    /\ UNCHANGED renameVars

NextMerge == RunMerge

\* ------------------------------------------------------------------------
\* rename_ass_to_ahs.py: one run of the rename script
\* ------------------------------------------------------------------------

\* The text of app.py is a sequence of pieces that follow each other without
\* a gap: the four forms the script looks for, a bare ASS, the ends of longer
\* identifiers (my_ + avg_ass is my_avg_ass, avg_ass + ets is avg_assets,
\* CL + ASS is CLASS) and a blank.  No form occurs across two pieces, so
\* str.replace acts on each piece for itself.
replacements ==
    << << "'ASS'", "'AHS'" >>, << "\"ASS\"", "\"AHS\"" >>,
       << "[ASS]", "[AHS]" >>, << "avg_ass", "avg_ahs" >> >>

\* content.replace(old, new): every occurrence, whatever stands beside it
Replace(text, old, new) ==
    [i \in 1..Len(text) |-> IF text[i] = old THEN new ELSE text[i]]

\* the loop over replacements, from the k-th pair on
RECURSIVE ReplaceAll(_, _)
ReplaceAll(text, k) ==
    IF k > Len(replacements) THEN text
    ELSE ReplaceAll(Replace(text, replacements[k][1], replacements[k][2]), k + 1)

\* content.count('ASS'): the pieces that hold the letters ASS
CountASS(text) ==
    Cardinality({ i \in 1..Len(text) :
                    text[i] \in {"'ASS'", "\"ASS\"", "[ASS]", "ASS"} })

RunRename ==
    /\ rename_runs < MaxRenames
    /\ original_count' = CountASS(content)
    /\ content' = ReplaceAll(content, 1)
    /\ new_count' = CountASS(content')
    /\ rename_runs' = rename_runs + 1
    /\ UNCHANGED << df, pc, selected_state, state_df, risk_counts, avg,
                    state_badge, suggestions, selected_district, district_data,
                    recommendation, issue_type, district_badge,
                    quick_improvement, pdf, report >>
    /\ UNCHANGED natVars
    /\ UNCHANGED loadVars
    /\ UNCHANGED scriptVars

NextRename == RunRename

\* ------------------------------------------------------------------------
\* Inputs
\* ------------------------------------------------------------------------

Row(s, d, dei, ahs, ubs, srs) ==
    [state |-> s, district |-> d, DEI |-> dei, AHS |-> ahs, UBS |-> ubs, SRS |-> srs]

\* scores on both sides of every threshold of the classifier
HighScores == {29, 30, 49, 50, 74, 75}

UbsScores == {25, 26, 50, 51, 70, 71}

SrsScores == {25, 26, 50, 51, 60, 61, 70, 71}

\* scores of the rows of a group: both sides of the thresholds of the insights
GroupDei == {49, 50, 70}

GroupAhs == {49, 50}

GroupUbs == {70, 71}

GroupSrs == {60, 61}

\* the district of the i-th row of a frame
DistrictNames == << "pune", "AGRA", "Kota", "gaya", "new delhi" >>

\* the merge script has not run and its files are not looked at
NoMerge ==
    /\ master_csv = << >>
    /\ mp_csv = << >>
    /\ mp_count = 0
    /\ merge_runs = 0

\* the data file is there
FilePresent == file_exists = TRUE

\* main() has not started: nothing is loaded and nothing is shown
\* the rename script has not run and its file is not looked at
NoRename ==
    /\ content = << >>
    /\ original_count = 0
    /\ new_count = 0
    /\ rename_runs = 0

RunStart ==
    /\ pc = "load"
    /\ response = "unset"
    /\ df = << >>
    /\ load_error = FALSE
    /\ state_map_df = << >>
    /\ geojson_data = None
    /\ national = None
    /\ selected_state = None
    /\ state_df = << >>
    /\ risk_counts = None
    /\ avg = None
    /\ state_badge = None
    /\ suggestions = None
    /\ selected_district = None
    /\ district_data = None
    /\ recommendation = None
    /\ issue_type = None
    /\ district_badge = None
    /\ quick_improvement = None
    /\ pdf = None
    /\ report = None

\* a frame of one district, with scores around every threshold
Init ==
    /\ FilePresent
    /\ data_file \in { << Row("X", "pune", dei, ahs, ubs, srs) >> :
                  dei \in HighScores, ahs \in HighScores,
                  ubs \in UbsScores, srs \in SrsScores }
    /\ RunStart
    /\ NoMerge
    /\ NoRename

Spec == Init /\ [][Next]_vars

\* scores outside [0, 1] and the two ends of the range: load_data validates
\* nothing, the frame holds whatever numbers the CSV file has
OutScores == {-5, 0, 100, 105}

\* a frame of one row whose scores may lie outside [0, 1]
InitRange ==
    /\ FilePresent
    /\ data_file \in { << Row("X", "pune", dei, ahs, ubs, srs) >> :
                  dei \in OutScores, ahs \in OutScores,
                  ubs \in OutScores, srs \in OutScores }
    /\ RunStart
    /\ NoMerge
    /\ NoRename

SpecRange == InitRange /\ [][Next]_vars

\* the scores <<DEI, AHS, UBS, SRS>> a row of a group can have
GroupScores == GroupDei \X GroupAhs \X GroupUbs \X GroupSrs

\* a frame of one state with 0 .. MaxGroup districts
InitAgg ==
    /\ FilePresent
    /\ \E n \in 0..MaxGroup :
          \E f \in [1..n -> GroupScores] :
             data_file = [i \in 1..n |->
                     Row("X", DistrictNames[i], f[i][1], f[i][2], f[i][3], f[i][4])]
    /\ RunStart
    /\ NoMerge
    /\ NoRename

SpecAgg == InitAgg /\ [][Next]_vars

\* the states of the rows of a frame of several states
NatStates == { "Goa", "Jammu and Kashmir", "X" }

\* a frame of 0 .. MaxRows districts spread over up to three states; a
\* district's other scores follow its DEI (a weak district is weak throughout)
NatFile ==
    \E n \in 0..MaxRows :
       \E f \in [1..n -> NatStates \X GroupDei] :
          data_file = [i \in 1..n |->
                         Row(f[i][1], DistrictNames[i], f[i][2], f[i][2],
                             120 - f[i][2], 110 - f[i][2])]

InitNat ==
    /\ FilePresent
    /\ NatFile
    /\ RunStart
    /\ NoMerge
    /\ NoRename

SpecNat == InitNat /\ [][Next]_vars

\* the data file is there with a frame of several states, or it is missing
InitLoad ==
    /\ \/ FilePresent /\ NatFile
       \/ file_exists = FALSE /\ data_file = << >>
    /\ RunStart
    /\ NoMerge
    /\ NoRename

SpecLoad == InitLoad /\ [][Next]_vars

\* a row of a score file; the score tells a row of the Madhya Pradesh file
\* (0.70) from a row the master file had before (0.50)
FileRow(s, d, dei) == [state |-> s, district |-> d, DEI |-> dei]

\* the rows a master file can hold: any state, Madhya Pradesh included
MasterRows ==
    { FileRow(s, d, 50) : s \in {"Goa", "Madhya Pradesh"},
                          d \in {"Bhopal", "Indore"} }

\* the rows a Madhya Pradesh score file can hold: read_csv and concat take the
\* state column as it is written, whatever its spelling
MpRows ==
    { FileRow(s, d, 70) : s \in {"Madhya Pradesh", "MADHYA PRADESH"},
                          d \in {"Bhopal", "Indore"} }

InitMerge ==
    /\ \E n \in 0..MaxMaster : master_csv \in [1..n -> MasterRows]
    /\ \E n \in 0..MaxMp : mp_csv \in [1..n -> MpRows]
    /\ mp_count = 0
    /\ merge_runs = 0
    /\ FilePresent
    /\ data_file = << >>
    /\ RunStart
    /\ NoRename

SpecMerge == InitMerge /\ [][NextMerge]_vars

\* the pieces a text of app.py is made of
Pieces == { "'ASS'", "\"ASS\"", "[ASS]", "avg_ass", "ASS", "CL", "ets", "my_", " " }

\* any text of up to MaxPieces pieces
InitRename ==
    /\ \E n \in 0..MaxPieces : content \in [1..n -> Pieces]
    /\ original_count = 0
    /\ new_count = 0
    /\ rename_runs = 0
    /\ FilePresent
    /\ data_file = << >>
    /\ RunStart
    /\ NoMerge

SpecRename == InitRename /\ [][NextRename]_vars

\* ------------------------------------------------------------------------
\* Properties
\* ------------------------------------------------------------------------

\* the positions of a run at which the named values have been computed
RiskDone == pc \notin {"load", "stopped", "national", "sidebar"}

NationalDone == pc \notin {"load", "stopped", "national"}

SummaryDone == pc \in {"insights", "detail", "done", "reported", "error"}

InsightsDone == pc \in {"detail", "done", "reported"}

DetailDone == pc \in {"done", "reported"}

\* C1: get_risk_category takes the first rule that holds, in the order
\* AHS < 0.5 (Access Stress), UBS > 0.7 (Update Burden), SRS > 0.6 (Stability
\* Risk), else Healthy; a row with AHS < 0.5 and UBS > 0.7 is Access Stress,
\* and the result is the same whatever the row's DEI is.
C1_RiskCategoryFirstMatch ==
    \A i \in 1..Len(state_df) :
        LET r == state_df[i] IN
        /\ r.AHS < 50 => r.risk_category = "Access Stress"
        /\ (r.AHS >= 50 /\ r.UBS > 70) => r.risk_category = "Update Burden"
        /\ (r.AHS >= 50 /\ r.UBS <= 70 /\ r.SRS > 60)
              => r.risk_category = "Stability Risk"
        /\ (r.AHS >= 50 /\ r.UBS <= 70 /\ r.SRS <= 60)
              => r.risk_category = "Healthy"
        /\ (r.AHS < 50 /\ r.UBS > 70) => r.risk_category # "Update Burden"
        /\ \A d \in HighScores \cup GroupDei :
              get_risk_category([r EXCEPT !.DEI = d]) = r.risk_category

C1_Witness ==
    /\ Len(state_df) = 1
    /\ state_df[1].AHS = 49
    /\ state_df[1].UBS = 71
    /\ state_df[1].risk_category = "Access Stress"

\* C2: get_issue_type is 'critical' whenever DEI < 0.5, whatever the other
\* scores; otherwise access_stress if AHS < 0.5, otherwise update_burden if
\* UBS > 0.7, otherwise stability_risk if SRS > 0.6, otherwise healthy.
C2_IssueTypeRules ==
    DetailDone =>
        LET r == district_data IN
        /\ r.DEI < 50 => issue_type = "critical"
        /\ (r.DEI >= 50 /\ r.AHS < 50) => issue_type = "access_stress"
        /\ (r.DEI >= 50 /\ r.AHS >= 50 /\ r.UBS > 70) => issue_type = "update_burden"
        /\ (r.DEI >= 50 /\ r.AHS >= 50 /\ r.UBS <= 70 /\ r.SRS > 60)
              => issue_type = "stability_risk"
        /\ (r.DEI >= 50 /\ r.AHS >= 50 /\ r.UBS <= 70 /\ r.SRS <= 60)
              => issue_type = "healthy"

C2_Witness ==
    /\ DetailDone
    /\ district_data.DEI = 49
    /\ district_data.AHS = 75
    /\ district_data.UBS = 25
    /\ district_data.SRS = 25
    /\ issue_type = "critical"

\* the label the higher-is-better rule gives the score n/d
HigherLabel(n, d) ==
    IF n >= 75 * d THEN "Excellent"
    ELSE IF n >= 50 * d THEN "Good"
    ELSE IF n >= 30 * d THEN "Needs Attention"
    ELSE "Critical"

\* the label the lower-is-better rule gives the score n/d
LowerLabel(n, d) ==
    IF n <= 25 * d THEN "Excellent"
    ELSE IF n <= 50 * d THEN "Good"
    ELSE IF n <= 70 * d THEN "Needs Attention"
    ELSE "Critical"

\* C3: for DEI and AHS get_badge is Excellent from 0.75, Good from 0.5, Needs
\* Attention from 0.3 and Critical below, boundaries included; both for a
\* district's own score and for the mean of a non-empty group.
C3_BadgeHigherIsBetter ==
    \A m \in {"DEI", "AHS"} :
        /\ DetailDone => district_badge[m][1] = HigherLabel(district_data[m], 1)
        /\ (SummaryDone /\ Len(state_df) > 0)
              => state_badge[m][1] = HigherLabel(avg[m].num, avg[m].den)

C3_Witness ==
    /\ DetailDone
    /\ district_data.DEI = 75
    /\ district_badge["DEI"][1] = "Excellent"
    /\ district_data.AHS = 74
    /\ district_badge["AHS"][1] = "Good"

\* C4: for UBS and SRS get_badge is Excellent up to 0.25, Good up to 0.5, Needs
\* Attention up to 0.7 and Critical above, boundaries included; both for a
\* district's own score and for the mean of a non-empty group.
C4_BadgeLowerIsBetter ==
    \A m \in {"UBS", "SRS"} :
        /\ DetailDone => district_badge[m][1] = LowerLabel(district_data[m], 1)
        /\ (SummaryDone /\ Len(state_df) > 0)
              => state_badge[m][1] = LowerLabel(avg[m].num, avg[m].den)

C4_Witness ==
    /\ DetailDone
    /\ district_data.UBS = 70
    /\ district_badge["UBS"][1] = "Needs Attention"
    /\ district_data.SRS = 71
    /\ district_badge["SRS"][1] = "Critical"

\* the title and level get_recommendation gives for each issue type
IssueTitle ==
    [ critical       |-> << "critical", "Critical Equity Gap" >>,
      access_stress  |-> << "warning", "High Access Stress" >>,
      update_burden  |-> << "warning", "Update Overload" >>,
      stability_risk |-> << "warning", "Stability Concerns" >>,
      healthy        |-> << "good", "District Performing Well" >> ]

\* C5: get_recommendation takes the branch get_issue_type takes: level and
\* title are those of the issue type, and in a district report (text or PDF) the
\* status title and the detailed suggestion describe the same issue.
C5_RecommendationMatchesIssue ==
    /\ DetailDone =>
          /\ \A k \in DOMAIN IssueTitle :
                /\ issue_type = k <=> recommendation.title = IssueTitle[k][2]
                /\ issue_type = k => recommendation.level = IssueTitle[k][1]
          /\ recommendation.level = "critical" <=> issue_type = "critical"
          /\ recommendation.level = "good" <=> issue_type = "healthy"
          /\ \E k \in DOMAIN IssueTitle :
                /\ pdf.status = IssueTitle[k][2]
                /\ pdf.detailed = DETAILED_SUGGESTIONS[k]
    /\ pc = "reported" =>
          \E k \in DOMAIN IssueTitle :
             /\ report.status = IssueTitle[k][2]
             /\ report.detailed = DETAILED_SUGGESTIONS[k]

C5_Witness ==
    /\ pc = "reported"
    /\ issue_type = "update_burden"
    /\ recommendation.title = "Update Overload"
    /\ report.status = "Update Overload"
    /\ report.detailed = DETAILED_SUGGESTIONS["update_burden"]

\* the risk category that names the same condition as an issue type
SameCondition ==
    [ access_stress  |-> "Access Stress",
      update_burden  |-> "Update Burden",
      stability_risk |-> "Stability Risk",
      healthy        |-> "Healthy" ]

\* C6: with DEI >= 0.5 get_issue_type and get_risk_category name the same
\* condition; with DEI < 0.5 get_issue_type is 'critical' and get_risk_category
\* is what the AHS / UBS / SRS rules give.
C6_TablesDifferByDeiCheck ==
    DetailDone =>
        LET r == district_data IN
        /\ r.DEI >= 50 =>
              /\ issue_type \in DOMAIN SameCondition
              /\ r.risk_category = SameCondition[issue_type]
        /\ r.DEI < 50 =>
              /\ issue_type = "critical"
              /\ r.risk_category =
                    IF r.AHS < 50 THEN "Access Stress"
                    ELSE IF r.UBS > 70 THEN "Update Burden"
                    ELSE IF r.SRS > 60 THEN "Stability Risk"
                    ELSE "Healthy"

C6_Witness ==
    /\ DetailDone
    /\ district_data.DEI = 50
    /\ district_data.SRS = 61
    /\ issue_type = "stability_risk"
    /\ district_data.risk_category = "Stability Risk"

\* C7: a district with DEI < 0.5 whose AHS, UBS and SRS pass is 'critical' for
\* get_issue_type and get_recommendation and 'Healthy' for get_risk_category:
\* critical in the detail view, counted as Healthy in the risk summary.
C7_CriticalYetHealthy ==
    DetailDone =>
        LET r == district_data IN
        (r.DEI < 50 /\ r.AHS >= 50 /\ r.UBS <= 70 /\ r.SRS <= 60) =>
            /\ issue_type = "critical"
            /\ recommendation.level = "critical"
            /\ r.risk_category = "Healthy"
            /\ (Len(state_df) = 1 => risk_counts["Healthy"] = 1)

C7_Witness ==
    /\ DetailDone
    /\ district_data.DEI = 49
    /\ district_data.AHS = 50
    /\ district_data.UBS = 70
    /\ district_data.SRS = 60
    /\ issue_type = "critical"
    /\ recommendation.level = "critical"
    /\ district_data.risk_category = "Healthy"
    /\ risk_counts["Healthy"] = 1

\* C8: aggregation over a group of zero records fails loudly: the state-level
\* means are never NaN, so no NaN mean is handed to get_badge for a KPI card
\* (state_badge is computed from avg in the same step).
C8_EmptyGroupFailsLoudly ==
    SummaryDone => \A m \in MetricKeys : ~IsNaN(avg[m])

\* the lines of the result of get_state_suggestions
Lines == suggestions.lines

\* i is the first row of the frame with the largest DEI
FirstMax(frame, i) ==
    /\ \A j \in 1..Len(frame) : frame[j].DEI <= frame[i].DEI
    /\ \A j \in 1..(i - 1) : frame[j].DEI < frame[i].DEI

\* i is the first row of the frame with the smallest DEI
FirstMin(frame, i) ==
    /\ \A j \in 1..Len(frame) : frame[j].DEI >= frame[i].DEI
    /\ \A j \in 1..(i - 1) : frame[j].DEI > frame[i].DEI

\* C9: for a non-empty group the best performer of get_state_suggestions is
\* the first row, in input order, with the largest DEI and the worst performer
\* the first row with the smallest DEI.
C9_ExtremesFirstInInputOrder ==
    (InsightsDone /\ Len(state_df) > 0) =>
        LET best  == Lines[Len(Lines) - 1]
            worst == Lines[Len(Lines)]
        IN /\ best.kind = "best"
           /\ worst.kind = "worst"
           /\ \E i \in 1..Len(state_df) :
                 /\ FirstMax(state_df, i)
                 /\ best.district = Title(state_df[i].district)
                 /\ best.DEI = state_df[i].DEI
           /\ \E i \in 1..Len(state_df) :
                 /\ FirstMin(state_df, i)
                 /\ worst.district = Title(state_df[i].district)
                 /\ worst.DEI = state_df[i].DEI

C9_Witness ==
    /\ InsightsDone
    /\ Len(state_df) = 2
    /\ state_df[1].DEI = 70
    /\ state_df[2].DEI = 70
    /\ Lines[Len(Lines) - 1].district = "Pune"
    /\ Lines[Len(Lines)].district = "Pune"

\* the place of each kind of line in the result
LineRank ==
    [ low_dei |-> 1, access_stress |-> 2, update_burden |-> 3,
      stability_risk |-> 4, overall |-> 5, best |-> 6, worst |-> 7 ]

\* the number of rows of the group that fail the threshold of a count line
Failing(kind) ==
    Cardinality({ i \in 1..Len(state_df) :
        CASE kind = "low_dei"        -> state_df[i].DEI < 50
          [] kind = "access_stress"  -> state_df[i].AHS < 50
          [] kind = "update_burden"  -> state_df[i].UBS > 70
          [] kind = "stability_risk" -> state_df[i].SRS > 60 })

CountKinds == { "low_dei", "access_stress", "update_burden", "stability_risk" }

\* C10: for a non-empty group the lines of get_state_suggestions come in the
\* order low-DEI count, access count, update count, stability count, overall
\* statement, best district, worst district, and each count reported is the
\* number of rows of the group that fail that threshold, counted independently.
C10_InsightOrderAndCounts ==
    (InsightsDone /\ Len(state_df) > 0) =>
        /\ \A i \in 1..Len(Lines) : Lines[i].kind \in DOMAIN LineRank
        /\ \A i, j \in 1..Len(Lines) :
              i < j => LineRank[Lines[i].kind] < LineRank[Lines[j].kind]
        /\ Len(Lines) >= 3
        /\ Lines[Len(Lines) - 2].kind = "overall"
        /\ Lines[Len(Lines) - 1].kind = "best"
        /\ Lines[Len(Lines)].kind = "worst"
        /\ \A i \in 1..Len(Lines) :
              Lines[i].kind \in CountKinds => Lines[i].count = Failing(Lines[i].kind)
        /\ \A k \in CountKinds :
              Failing(k) > 0 => \E i \in 1..Len(Lines) : Lines[i].kind = k

C10_Witness ==
    /\ InsightsDone
    /\ Len(state_df) = 2
    /\ Len(Lines) = 7
    /\ Lines[1] = [kind |-> "low_dei", count |-> 1]
    /\ Lines[2] = [kind |-> "access_stress", count |-> 2]
    /\ Lines[3] = [kind |-> "update_burden", count |-> 2]
    /\ Lines[4] = [kind |-> "stability_risk", count |-> 1]

\* the rows of the loaded frame that belong to the selected state
Selected == { i \in 1..Len(df) : df[i].state = selected_state }

\* C11: the risk summary counts every row of the selected state under exactly
\* one of the four categories: the four displayed counts sum to the number of
\* rows of the group, and each is the number of rows whose get_risk_category is
\* that category (0 for a category no row has).
C11_RiskHistogramPartitions ==
    RiskDone =>
        /\ DOMAIN risk_counts =
              { "Healthy", "Access Stress", "Update Burden", "Stability Risk" }
        /\ risk_counts["Healthy"] + risk_counts["Access Stress"]
              + risk_counts["Update Burden"] + risk_counts["Stability Risk"]
              = Cardinality(Selected)
        /\ Len(state_df) = Cardinality(Selected)
        /\ \A c \in DOMAIN risk_counts :
              risk_counts[c] =
                 Cardinality({ i \in Selected : get_risk_category(df[i]) = c })

C11_Witness ==
    /\ RiskDone
    /\ Len(state_df) = 2
    /\ risk_counts["Access Stress"] = 1
    /\ risk_counts["Update Burden"] = 1
    /\ risk_counts["Healthy"] = 0
    /\ risk_counts["Stability Risk"] = 0

\* the sum of a score over the rows of the loaded frame with index in S
RECURSIVE SumOver(_, _)
SumOver(S, m) ==
    IF S = {} THEN 0
    ELSE LET i == CHOOSE x \in S : TRUE IN df[i][m] + SumOver(S \ {i}, m)

\* the rows of the loaded frame that a row of state_map_df aggregates
RowsOf(name) == { i \in 1..Len(df) : ReplaceStateName(df[i].state) = name }

\* C12: for a non-empty group each state-level mean (DEI, AHS, UBS, SRS) is
\* the arithmetic mean of that score over the rows of the group: the mean times
\* the number of rows is the sum of the scores.  This holds for the means of the
\* selected state and for those of every state of the national aggregation.
C12_MeanIsArithmeticMean ==
    /\ (SummaryDone /\ Len(state_df) > 0) =>
          \A m \in MetricKeys :
             /\ avg[m].den > 0
             /\ avg[m].num * Cardinality(Selected) = SumOver(Selected, m) * avg[m].den
    /\ NationalDone =>
          \A k \in 1..Len(state_map_df) :
             LET row == state_map_df[k] IN
             /\ row.district = Cardinality(RowsOf(row.state))
             /\ row.district > 0
             /\ \A m \in MetricKeys :
                   /\ row[m].den > 0
                   /\ row[m].num * row.district = SumOver(RowsOf(row.state), m) * row[m].den

C12_Witness ==
    /\ SummaryDone
    /\ Len(state_df) = 2
    /\ state_df[1].DEI = 50
    /\ state_df[2].DEI = 70
    /\ avg["DEI"].num = 60 * avg["DEI"].den
    /\ Len(state_map_df) = 2
    /\ state_map_df[1].state = "Jammu & Kashmir"
    /\ state_map_df[1].DEI.num = 49 * state_map_df[1].DEI.den

\* the category the rule of get_dei_category gives the mean n/d
DeiLabel(n, d) ==
    IF n >= 70 * d THEN "Good"
    ELSE IF n >= 50 * d THEN "Warning"
    ELSE "Critical"

\* the states of state_map_df whose mean DEI has the category c
StatesWith(c) ==
    { k \in 1..Len(state_map_df) :
        DeiLabel(state_map_df[k].DEI.num, state_map_df[k].DEI.den) = c }

\* C13: get_dei_category is Good for a mean DEI >= 0.7, Warning for one >= 0.5
\* and Critical below (boundaries included), and the Good / Warning / Critical
\* counts of the national overview sum to the number of states.
C13_DeiCategoryAndCounts ==
    NationalDone =>
        /\ \A k \in 1..Len(state_map_df) :
              state_map_df[k].dei_category =
                 DeiLabel(state_map_df[k].DEI.num, state_map_df[k].DEI.den)
        /\ national.kind = "overview" =>
              /\ national.s_good = Cardinality(StatesWith("Good"))
              /\ national.s_warn = Cardinality(StatesWith("Warning"))
              /\ national.s_crit = Cardinality(StatesWith("Critical"))
              /\ national.s_good + national.s_warn + national.s_crit
                    = Cardinality({ df[i].state : i \in 1..Len(df) })
              /\ national.total_states = Cardinality({ df[i].state : i \in 1..Len(df) })

C13_Witness ==
    /\ NationalDone
    /\ national.kind = "overview"
    /\ Len(state_map_df) = 3
    /\ state_map_df[1].DEI = [num |-> 70, den |-> 1]
    /\ state_map_df[1].dei_category = "Good"
    /\ state_map_df[2].DEI = [num |-> 50, den |-> 1]
    /\ state_map_df[2].dei_category = "Warning"
    /\ state_map_df[3].DEI = [num |-> 49, den |-> 1]
    /\ state_map_df[3].dei_category = "Critical"
    /\ national.s_good = 1
    /\ national.s_warn = 1
    /\ national.s_crit = 1

\* the overall-performance statements among the lines of the insights
OverallTexts == { Lines[k].text : k \in { j \in 1..Len(Lines) : Lines[j].kind = "overall" } }

\* the statement that goes with a category of get_dei_category
OverallOf == [ Good |-> "excellent", Warning |-> "moderate", Critical |-> "below par" ]

\* C14: for a non-empty group the overall line of get_state_suggestions says
\* excellent exactly when the mean DEI of the group is >= 0.7, moderate exactly
\* when it is in [0.5, 0.7) and below par otherwise; it agrees with
\* get_dei_category of the same mean (excellent / Good, moderate / Warning,
\* below par / Critical), which is the category the national table gives the state.
C14_OverallLineMatchesCategory ==
    (InsightsDone /\ Len(state_df) > 0) =>
        LET n   == Len(state_df)
            sum == SumOver(Selected, "DEI")
        IN  /\ ~suggestions.raised
            /\ OverallTexts =
                  { IF sum >= 70 * n THEN "excellent"
                    ELSE IF sum >= 50 * n THEN "moderate"
                    ELSE "below par" }
            /\ OverallTexts = { OverallOf[get_dei_category(avg["DEI"])] }
            /\ \A k \in 1..Len(state_map_df) :
                  state_map_df[k].state = selected_state =>
                     OverallTexts = { OverallOf[state_map_df[k].dei_category] }

C14_Witness ==
    /\ InsightsDone
    /\ Len(state_df) = 2
    /\ state_df[1].DEI = 50
    /\ state_df[2].DEI = 50
    /\ OverallTexts = { "moderate" }
    /\ Len(state_map_df) = 1
    /\ state_map_df[1].dei_category = "Warning"

\* the rank of a badge label, Critical lowest
BadgeRank ==
    [l \in {"Critical", "Needs Attention", "Good", "Excellent"} |->
        CASE l = "Critical"        -> 1
          [] l = "Needs Attention" -> 2
          [] l = "Good"            -> 3
          [] l = "Excellent"       -> 4]

\* every score of [0, 1] in hundredths
UnitScores == 0..100

\* C15: get_badge returns one of the four labels for every score and metric
\* and is monotonic: against the badge shown for the district, no lower score
\* has a higher badge and no higher score a lower badge for DEI and AHS (higher
\* is better), and the other way round for UBS and SRS (lower is better).
C15_BadgeMonotonic ==
    DetailDone =>
        \A m \in MetricKeys :
            LET own == district_badge[m][1] IN
            /\ own \in DOMAIN BadgeRank
            /\ \A s \in UnitScores :
                  LET other == get_badge(Fl(s), m)[1] IN
                  /\ other \in DOMAIN BadgeRank
                  /\ (s <= district_data[m] /\ m \in {"DEI", "AHS"}) =>
                        BadgeRank[other] <= BadgeRank[own]
                  /\ (s >= district_data[m] /\ m \in {"DEI", "AHS"}) =>
                        BadgeRank[other] >= BadgeRank[own]
                  /\ (s <= district_data[m] /\ m \in {"UBS", "SRS"}) =>
                        BadgeRank[other] >= BadgeRank[own]
                  /\ (s >= district_data[m] /\ m \in {"UBS", "SRS"}) =>
                        BadgeRank[other] <= BadgeRank[own]

C15_Witness ==
    /\ DetailDone
    /\ district_data.DEI = 50
    /\ district_badge["DEI"][1] = "Good"
    /\ district_data.AHS = 29
    /\ district_badge["AHS"][1] = "Critical"
    /\ district_data.UBS = 51
    /\ district_badge["UBS"][1] = "Needs Attention"
    /\ district_data.SRS = 25
    /\ district_badge["SRS"][1] = "Excellent"

\* C16: every value of get_issue_type is one of the five keys access_stress,
\* update_burden, stability_risk, critical, healthy, and DETAILED_SUGGESTIONS
\* and SIMPLE_SUGGESTIONS have exactly these five keys; so the lookup
\* SIMPLE_SUGGESTIONS[issue_type] of the detail view never fails (a run fails
\* only on an empty group) and the texts shown are the entries of the issue
\* type itself, never the healthy default taken for a missing key.
C16_IssueKeysCovered ==
    LET keys == {"access_stress", "update_burden", "stability_risk", "critical", "healthy"} IN
    /\ DOMAIN DETAILED_SUGGESTIONS = keys
    /\ DOMAIN SIMPLE_SUGGESTIONS = keys
    /\ pc = "error" => Len(state_df) = 0
    /\ DetailDone =>
          /\ issue_type \in keys
          /\ quick_improvement = SIMPLE_SUGGESTIONS[issue_type]
          /\ pdf.detailed = DETAILED_SUGGESTIONS[issue_type]
    /\ pc = "reported" =>
          /\ issue_type \in keys
          /\ report.detailed = DETAILED_SUGGESTIONS[issue_type]

C16_Witness ==
    /\ pc = "reported"
    /\ issue_type = "stability_risk"
    /\ quick_improvement = SIMPLE_SUGGESTIONS["stability_risk"]
    /\ pdf.detailed = DETAILED_SUGGESTIONS["stability_risk"]
    /\ report.detailed = DETAILED_SUGGESTIONS["stability_risk"]

\* a score brought into [0, 1]: below 0 becomes 0, above 1 becomes 1
Clamp(x) == IF x < 0 THEN 0 ELSE IF x > 100 THEN 100 ELSE x

\* a row with its four scores brought into [0, 1]
ClampRow(r) ==
    [r EXCEPT !.DEI = Clamp(r.DEI), !.AHS = Clamp(r.AHS),
              !.UBS = Clamp(r.UBS), !.SRS = Clamp(r.SRS)]

\* C17: with scores below 0 or above 1 no classifier raises and each returns
\* a value of its result set: get_badge, get_risk_category, get_issue_type,
\* get_recommendation and get_dei_category give a score below 0 the result of
\* the score 0 and a score above 1 the result of the score 1.
C17_OutOfRangeClassified ==
    /\ pc # "error"
    /\ \A i \in 1..Len(state_df) :
          /\ state_df[i].risk_category \in
                {"Healthy", "Access Stress", "Update Burden", "Stability Risk"}
          /\ state_df[i].risk_category = get_risk_category(ClampRow(state_df[i]))
          /\ state_df[i].AHS < 0 => state_df[i].risk_category = "Access Stress"
    /\ NationalDone =>
          \A k \in 1..Len(state_map_df) :
             state_map_df[k].dei_category = DeiLabel(Clamp(df[1].DEI), 1)
    /\ DetailDone =>
          /\ \A m \in {"DEI", "AHS"} :
                district_badge[m][1] = HigherLabel(Clamp(district_data[m]), 1)
          /\ \A m \in {"UBS", "SRS"} :
                district_badge[m][1] = LowerLabel(Clamp(district_data[m]), 1)
          /\ issue_type \in DOMAIN IssueTitle
          /\ issue_type = get_issue_type(ClampRow(district_data))
          /\ recommendation = get_recommendation(ClampRow(district_data))
          /\ recommendation.level = IssueTitle[issue_type][1]
          /\ district_data.DEI < 0 => issue_type = "critical"
          /\ (district_data.DEI > 100 /\ district_data.AHS > 100
                /\ district_data.UBS < 0 /\ district_data.SRS < 0)
                => issue_type = "healthy"

C17_Witness ==
    /\ DetailDone
    /\ district_data.DEI = 105
    /\ district_data.AHS = -5
    /\ district_data.UBS = 105
    /\ district_data.SRS = -5
    /\ district_badge["DEI"][1] = "Excellent"
    /\ district_badge["AHS"][1] = "Critical"
    /\ district_badge["UBS"][1] = "Critical"
    /\ district_badge["SRS"][1] = "Excellent"
    /\ issue_type = "access_stress"
    /\ state_df[1].risk_category = "Access Stress"
    /\ state_map_df[1].dei_category = "Good"

\* the rows of the score table, in order: the metric name and its column
TableOrder ==
    << << "Digital Equity Index", "DEI" >>, << "Access Health Score", "AHS" >>,
       << "Update Load Score", "UBS" >>, << "Stability Score", "SRS" >> >>

\* v (thousandths) is the fraction num/den rounded to the nearest thousandth
RoundedTo(v, num, den) ==
    /\ 2 * (v * den - 10 * num) <= den
    /\ 2 * (10 * num - v * den) <= den

\* a score table shows, in the fixed order, the district's score, the group's
\* mean, score minus mean and the badge of the district's score
TableRight(rows) ==
    /\ Len(rows) = 4
    /\ \A k \in 1..4 :
          LET m   == TableOrder[k][2]
              n   == Len(state_df)
              sum == SumOver(Selected, m)
              own == district_data[m]
          IN  /\ rows[k].metric = TableOrder[k][1]
              /\ rows[k].score = 10 * own
              /\ RoundedTo(rows[k].avg, sum, n)
              /\ RoundedTo(rows[k].diff, own * n - sum, n)
              /\ rows[k].status =
                    IF m \in {"DEI", "AHS"} THEN HigherLabel(own, 1)
                    ELSE LowerLabel(own, 1)

\* C18: the score table of the text report and of the PDF report of a district
\* has four rows in the order DEI, AHS, UBS, SRS, and each row shows the
\* district's own score, the mean of the state group, the difference score
\* minus mean, and the label of get_badge on the district's score, not the mean.
C18_ReportTable ==
    /\ DetailDone => TableRight(pdf.rows)
    /\ pc = "reported" => TableRight(report.rows)

C18_Witness ==
    /\ pc = "reported"
    /\ Len(state_df) = 2
    /\ state_df[1].DEI = 49
    /\ district_data.DEI = 50
    /\ report.rows[1] = [metric |-> "Digital Equity Index", score |-> 500,
                         avg |-> 495, diff |-> 5, status |-> "Good"]
    /\ pdf.rows[1] = report.rows[1]
    /\ pdf.rows[3].metric = "Update Load Score"
    /\ pdf.rows[3].score = 10 * district_data.UBS

\* C20: the merge script is idempotent: once it has run, a further run leaves
\* the master file with the same rows, so rows never accumulate.
C20_MergeIdempotent == [][merge_runs >= 1 => master_csv' = master_csv]_vars

\* how many times a row occurs in a file
Occurrences(file, r) == Cardinality({ i \in 1..Len(file) : file[i] = r })

\* the rows of a file, as a set
RowSet(file) == { file[i] : i \in 1..Len(file) }

NameOrder(n) ==
    CASE n = "Bhopal"         -> 1
      [] n = "Goa"            -> 2
      [] n = "Indore"         -> 3
      [] n = "MADHYA PRADESH" -> 4
      [] n = "Madhya Pradesh" -> 5

\* C22: after every run of the merge script the rows of the master file are in
\* non-decreasing order of the pair (state, district).
C22_MergeOutputSorted ==
    merge_runs >= 1 =>
        \A i \in 1..Len(master_csv) : \A j \in (i + 1)..Len(master_csv) :
            \/ NameOrder(master_csv[i].state) < NameOrder(master_csv[j].state)
            \/ /\ master_csv[i].state = master_csv[j].state
               /\ NameOrder(master_csv[i].district) <= NameOrder(master_csv[j].district)

C22_Witness ==
    /\ merge_runs = 1
    /\ Len(master_csv) = 4
    /\ master_csv[1].state = "Goa"
    /\ master_csv[1].district = "Bhopal"
    /\ master_csv[2].state = "Goa"
    /\ master_csv[2].district = "Indore"
    /\ master_csv[3].state = "MADHYA PRADESH"
    /\ master_csv[4].state = "Madhya Pradesh"
    /\ mp_csv[1].state = "Madhya Pradesh"
    /\ mp_csv[2].state = "MADHYA PRADESH"

\* C23: with at least one row loaded, whatever states and districts are
\* selected over any number of reruns, the selected state is a state of the
\* data and its group is never empty (so the run never fails on an empty
\* group), and the selected district is found: the detail view shows the
\* first row of the group with that title-cased district.
C23_SelectionsNeverEmpty ==
    Len(df) >= 1 =>
        /\ pc # "error"
        /\ RiskDone =>
              /\ \E i \in 1..Len(df) : df[i].state = selected_state
              /\ Len(state_df) >= 1
              /\ Len(state_df) = Cardinality(Selected)
        /\ DetailDone =>
              /\ \E i \in 1..Len(state_df) :
                    /\ Title(state_df[i].district) = selected_district
                    /\ district_data = state_df[i]
              /\ district_data.state = selected_state

C23_Witness ==
    /\ DetailDone
    /\ Len(df) = 3
    /\ df[1].state = "X"
    /\ df[2].state = "Jammu and Kashmir"
    /\ df[3].state = "X"
    /\ selected_state = "Jammu and Kashmir"
    /\ Len(state_df) = 1
    /\ selected_district = "Agra"
    /\ district_data.district = "AGRA"

\* the columns of the data file
DataColumns == {"state", "district", "DEI", "AHS", "UBS", "SRS"}

\* C24: no step of the dashboard after load_data has returned changes the
\* loaded data: over any reruns and selections df keeps the rows, columns and
\* values of the data file; the risk_category column and the replaced state
\* name exist only in state_df and state_map_df.
C24_LoadedDataUnchanged ==
    [][ /\ pc # "load" => df' = df
        /\ pc' \notin {"load", "stopped"} => df' = data_file
        /\ data_file' = data_file
        /\ \A i \in 1..Len(df') :
              /\ DOMAIN df'[i] = DataColumns
              /\ df'[i].state # "Jammu & Kashmir"
      ]_vars

C24_Witness ==
    /\ pc = "reported"
    /\ Len(df) = 2
    /\ df[1].state = "Jammu and Kashmir"
    /\ DOMAIN df[1] = DataColumns
    /\ state_map_df[1].state = "Jammu & Kashmir"
    /\ selected_state = "Jammu and Kashmir"
    /\ state_df[1].risk_category = "Access Stress"

\* C25: when the data file is missing, load_data shows the error and stops
\* the run: no frame is returned and no section after the load is rendered
\* (the run is at the load or stopped, nothing is aggregated, selected or
\* shown), in that run and in every rerun; when the file is there, the frame
\* is the file's rows and no error is shown.
C25_MissingFileStopsRun ==
    /\ ~file_exists =>
          /\ pc \in {"load", "stopped"}
          /\ pc = "stopped" <=> load_error
          /\ df = << >>
          /\ state_map_df = << >>
          /\ state_df = << >>
          /\ geojson_data = None
          /\ selected_state = None
          /\ selected_district = None
    /\ file_exists =>
          /\ pc # "stopped"
          /\ ~load_error
          /\ pc # "load" => df = data_file

C25_Witness ==
    /\ ~file_exists
    /\ pc = "stopped"
    /\ load_error
    /\ df = << >>

\* C26: when the GeoJSON request ends in an exception or in a status other
\* than 200, load_state_geojson returns None, the national section shows the
\* listing of the states with their mean DEI and category (sorted by DEI)
\* instead of the map, and the run goes on: with data loaded it fails nowhere
\* and reaches the sidebar, the state summary, the insights and the detail view.
C26_MapFallback ==
    (NationalDone /\ response \in {"503", "exception"}) =>
        /\ geojson_data = None
        /\ national.kind = "listing"
        /\ Len(national.rows) = Len(state_map_df)
        /\ \A k \in 1..Len(national.rows) :
              /\ \E j \in 1..Len(state_map_df) :
                    /\ national.rows[k].state = state_map_df[j].state
                    /\ national.rows[k].DEI = state_map_df[j].DEI
                    /\ national.rows[k].dei_category = state_map_df[j].dei_category
              /\ \A j \in 1..(k - 1) :
                    ~Less(national.rows[k].DEI, national.rows[j].DEI)
        /\ pc # "stopped"
        /\ Len(df) >= 1 => pc # "error"
        /\ DetailDone => Len(state_df) >= 1 /\ district_data.state = selected_state

C26_Witness ==
    /\ pc = "reported"
    /\ response = "503"
    /\ geojson_data = None
    /\ national.kind = "listing"
    /\ Len(national.rows) = 2
    /\ national.rows[1].dei_category = "Critical"
    /\ national.rows[2].dei_category = "Good"
    /\ Len(state_df) >= 1

\* the positions of the lines of one kind among the insights
LinesOf(kind) == { i \in 1..Len(Lines) : Lines[i].kind = kind }

\* C27: for a non-empty group a count line of get_state_suggestions is there
\* exactly when its count is above zero (and then once, with a positive
\* count), and the lines end with exactly one overall line, then the best
\* performer, then the district that needs most attention: 3 to 7 lines.
C27_InsightLinesPresent ==
    (InsightsDone /\ Len(state_df) > 0) =>
        /\ \A k \in CountKinds :
              /\ Cardinality(LinesOf(k)) = (IF Failing(k) > 0 THEN 1 ELSE 0)
              /\ \A i \in LinesOf(k) : Lines[i].count > 0
        /\ LinesOf("overall") = { Len(Lines) - 2 }
        /\ LinesOf("best") = { Len(Lines) - 1 }
        /\ LinesOf("worst") = { Len(Lines) }
        /\ Len(Lines) \in 3..7
        /\ Len(Lines) = 3 + Cardinality({ k \in CountKinds : Failing(k) > 0 })

C27_Witness ==
    /\ InsightsDone
    /\ Len(state_df) = 2
    /\ Failing("low_dei") = 0
    /\ Failing("access_stress") = 1
    /\ Failing("update_burden") = 0
    /\ Failing("stability_risk") = 2
    /\ Len(Lines) = 5
    /\ Lines[1] = [kind |-> "access_stress", count |-> 1]
    /\ Lines[2] = [kind |-> "stability_risk", count |-> 2]
    /\ Lines[3].kind = "overall"

\* the count the insights report for a kind: 0 when the line is absent
Reported(kind) ==
    IF LinesOf(kind) = {} THEN 0
    ELSE Lines[CHOOSE i \in LinesOf(kind) : TRUE].count

\* C28: for a non-empty group the access-stress count of the insights is the
\* sidebar's Access Stress count, and the update-burden and stability-risk
\* counts of the insights are at least the sidebar's Update Burden and
\* Stability Risk counts: the insights flag a row under every rule it fails,
\* the sidebar under the first one only.
C28_InsightCountsVersusRisk ==
    (InsightsDone /\ Len(state_df) > 0) =>
        /\ Reported("access_stress") = risk_counts["Access Stress"]
        /\ Reported("update_burden") >= risk_counts["Update Burden"]
        /\ Reported("stability_risk") >= risk_counts["Stability Risk"]
        /\ Reported("update_burden") + Reported("stability_risk")
              >= Len(state_df) - risk_counts["Access Stress"] - risk_counts["Healthy"]

C28_Witness ==
    /\ InsightsDone
    /\ Len(state_df) = 2
    /\ Reported("low_dei") = 2
    /\ Reported("access_stress") = 2
    /\ Reported("update_burden") = 2
    /\ Reported("stability_risk") = 2
    /\ risk_counts["Access Stress"] = 2
    /\ risk_counts["Update Burden"] = 0
    /\ risk_counts["Stability Risk"] = 0

\* C29: for the same state, district, record and group the text report and
\* the PDF report hold the same content: the same state and district, the same
\* four metric rows (name, score, state average, difference, badge label),
\* the same status title, the same summary and the same detailed suggestion.
C29_ReportsAgree ==
    pc = "reported" =>
        /\ report.state = pdf.state
        /\ report.district = pdf.district
        /\ Len(report.rows) = Len(pdf.rows)
        /\ \A k \in 1..Len(report.rows) :
              /\ report.rows[k].metric = pdf.rows[k].metric
              /\ report.rows[k].score = pdf.rows[k].score
              /\ report.rows[k].avg = pdf.rows[k].avg
              /\ report.rows[k].diff = pdf.rows[k].diff
              /\ report.rows[k].status = pdf.rows[k].status
        /\ report.status = pdf.status
        /\ report.summary = pdf.summary
        /\ report.detailed = pdf.detailed

C29_Witness ==
    /\ pc = "reported"
    /\ Len(state_df) = 2
    /\ state_df[2].DEI = 49
    /\ district_data.DEI = 70
    /\ report.rows[1].diff = 105
    /\ pdf.rows[1].diff = 105
    /\ report.rows[4].status = pdf.rows[4].status
    /\ report.status = "High Access Stress"
    /\ pdf.status = "High Access Stress"
    /\ pdf.detailed = DETAILED_SUGGESTIONS["access_stress"]
    /\ report.detailed = pdf.detailed

\* the pieces that begin and end with a letter, a digit or an underscore:
\* next to each other they form one word or identifier
WordPieces == { "avg_ass", "avg_ahs", "ASS", "CL", "ets", "my_" }

\* the four forms the script rewrites, with what each becomes
Renamed ==
    [f \in {"'ASS'", "\"ASS\"", "[ASS]", "avg_ass"} |->
        CASE f = "'ASS'"   -> "'AHS'"
          [] f = "\"ASS\"" -> "\"AHS\""
          [] f = "[ASS]"   -> "[AHS]"
          [] f = "avg_ass" -> "avg_ahs"]

\* the i-th piece is no part of a longer word or identifier
Standalone(text, i) ==
    \/ text[i] \notin WordPieces
    \/ /\ (i = 1 \/ text[i - 1] \notin WordPieces)
       /\ (i = Len(text) \/ text[i + 1] \notin WordPieces)

\* C30: a run of the rename script rewrites the standalone occurrences of
\* 'ASS', "ASS", [ASS] and avg_ass, alters no longer word or identifier that
\* contains one of them, leaves every other piece of the text as it is, and
\* a second run changes nothing.
C30_RenameWholeWordsOnly ==
    [][ /\ Len(content') = Len(content)
        /\ \A i \in 1..Len(content) :
              IF content[i] \in DOMAIN Renamed /\ Standalone(content, i)
              THEN content'[i] = Renamed[content[i]]
              ELSE content'[i] = content[i]
        /\ rename_runs >= 1 => content' = content
      ]_vars

====
